---- MODULE Spec2Model ----
(***************************************************************************)
(* Host-side frame orchestration of the DLSS-RR path tracing sample         *)
(* (class DlssApplet and the NgxContext / DlssRR wrapper).                  *)
(*                                                                          *)
(* The sources hold two generations of the applet: the one built on         *)
(* nvpro_core2 (src/unnamed/part_001, synchronization2 barriers) and the    *)
(* one built on nvpro_core (src/unnamed/part_002, vkCmdPipelineBarrier).    *)
(* The variable `variant` says which of the two a behaviour runs; it is     *)
(* chosen in Init and never changes.                                        *)
(*                                                                          *)
(* The application framework (nvapp / nvvkhl Application) is external.  It  *)
(* is modelled by the frame loop  events -> onUIRender -> onRender ->       *)
(* present, with the viewport size reported through onResize before the     *)
(* first frame is rendered.                                                 *)
(***************************************************************************)
EXTENDS Integers, Sequences, FiniteSets, TLC

VARIABLES
  variant,        \* "core2" (part_001) or "legacy" (part_002)
  status,         \* "constructed", "running", "exited" (exit(EXIT_FAILURE)), "detached"
  phase,          \* position in the frame loop: "ui", "render", "present"
  viewportSet,    \* the framework has reported the viewport size (onResize) at least once
  sceneValid,     \* m_scene.valid()
  m_frame,        \* DlssApplet::m_frame
  pushFrame,      \* m_pushConst.frame
  m_settings,     \* [maxDepth, maxFrames]
  m_frameInfo,    \* [view, proj, prevMVP, jitter, flags]
  camera,         \* view matrix held by the camera manipulator
  m_renderSize,   \* <<w, h>>
  m_outputSize,   \* <<w, h>>
  m_dlssQuality,
  m_dlssPreset,
  m_dlssSizes,    \* [minSize, maxSize, optimalSize]
  specHitEnable,  \* m_dlssBufferEnable[eGBufSpecHitDist]
  ngxInit,        \* NgxContext::m_ngxParams / m_device set
  dlss,           \* DlssRR: [handle, inputSize, outputSize]
  renderBufSize,  \* size of m_renderBuffers, <<0,0>> when not allocated
  outputBufSize,  \* size of m_outputBuffers, <<0,0>> when not allocated
  cmd,            \* commands recorded for the current frame
  inFlight,       \* commands of the previous frame, possibly still executing
  errLog,         \* number of NGX errors the handler that ran last has logged (checkNgxResult)
  events,         \* number of external events and user inputs so far
  lastOp,         \* name of the handler that ran last
  destroyed,      \* how the latest handler destroyed frame resources: "none", "idle" (nothing
                  \* was submitted), "afterWait" (after vkDeviceWaitIdle), "unsafe" (work pending)
  queried,        \* the supported-size query the latest handler made, NoQuery if none
  uploaded,       \* the view and projection of the frame info the latest rendered frame
                  \* uploaded (vkCmdUpdateBuffer), <<>> before the first rendered frame
  calls,          \* the calls into NgxContext / DlssRR the latest handler made, in order,
                  \* each with m_dlssdHandle # nullptr at its entry
  lastFail,       \* the failure the environment injected into the latest handler
  pendingReset,   \* the latest history-invalidating event since the last rendered frame,
                  \* "first" before the first rendered frame, "none" if there was none
  sinceResChange, \* rendered frames since the last render-resolution change, -1 if
                  \* another reset-raising event came later or none happened
  \* one invocation of the ray-generation shader primary.rgen (one pixel)
  launch,         \* what the invocation reads from frameInfo and the push constant
  px,             \* the local variables of main() and the position reached in it
  images,         \* per guide image, the values stored at this pixel so far, in order
  traced          \* what the primary rays traced so far have returned, in order

appletVars == <<variant, status, phase, viewportSet, sceneValid, m_frame, pushFrame,
          m_settings, m_frameInfo, camera, m_renderSize, m_outputSize,
          m_dlssQuality, m_dlssPreset, m_dlssSizes, specHitEnable, ngxInit, dlss,
          renderBufSize, outputBufSize, cmd, inFlight, errLog, events, lastOp,
          destroyed, queried, calls, uploaded, lastFail, pendingReset, sinceResChange>>

shaderVars == <<launch, px, images, traced>>

vars == <<appletVars, shaderVars>>

-----------------------------------------------------------------------------
(* Bounds *)

MaxFrame == 3      \* frames rendered without a reset before the model stops rendering
MaxEvents == 4     \* external events (resize, file drop) and user inputs in one behaviour

-----------------------------------------------------------------------------
(* Program constants and value sets *)

Variants == {"core2", "legacy"}

MinOutputDim == 256

RenderBufferName == {"BaseColor_Metalness", "SpecAlbedo", "SpecHitDist",
                     "NormalRoughness", "MotionVectors", "ViewZ", "Color"}
OutputBufferName == {"ColorOut", "Ldr"}

\* window / viewport sizes the framework may report
WindowSizes == {<<200, 100>>, <<512, 256>>}

\* answers of NGX_DLSSD_GET_OPTIMAL_SETTINGS
SizeReplies ==
  { [minSize |-> <<128, 64>>,  maxSize |-> <<512, 256>>, optimalSize |-> <<256, 128>>],
    [minSize |-> <<256, 128>>, maxSize |-> <<256, 128>>, optimalSize |-> <<256, 128>>],
    [minSize |-> <<683, 384>>, maxSize |-> <<1366, 768>>, optimalSize |-> <<911, 512>>] }

Qualities == {"MaxQuality", "MaxPerf"}
Presets == {"Default", "PresetD"}
Depths == {5, 6}
FrameCaps == {200000, 1000}
Cameras == {0, 1}

\* bits of FrameInfo::flags; the mask is modelled as the set of bits that are set
FLAGS_ENVMAP_SKY == 1
FLAGS_USE_PSR == 2
FLAGS_USE_PATH_REGULARIZATION == 4

NoSize == <<0, 0>>

\* no call of querySupportedDlssInputSizes
NoQuery == [outputSize |-> NoSize, quality |-> "none"]

ZeroMatrix == "zero"

Min(a, b) == IF a < b THEN a ELSE b
Max(a, b) == IF a > b THEN a ELSE b

-----------------------------------------------------------------------------
(* Command stream *)

\* one VkImageMemoryBarrier(2) together with the stage masks that apply to it
ImageBarrier(image, srcStage, dstStage, srcAccess, dstAccess) ==
  [image |-> image, srcStage |-> srcStage, dstStage |-> dstStage,
   srcAccess |-> srcAccess, dstAccess |-> dstAccess]

imageShaderWriteToRead(image, srcStage, dstStage) ==
  ImageBarrier(image, srcStage, dstStage, "SHADER_WRITE", "SHADER_READ")

imageShaderReadToWrite(image, srcStage, dstStage) ==
  ImageBarrier(image, srcStage, dstStage, "SHADER_READ", "SHADER_WRITE")

\* a recorded command; every command carries the same fields
Command(op) ==
  [op |-> op, ib |-> {}, frame |-> -1, reset |-> FALSE, ok |-> TRUE,
   bound |-> {}, renderSize |-> NoSize, event |-> "none", since |-> -1]

cmdImageBarriers(barriers) == [Command("barrier") EXCEPT !.ib = barriers]

\* what survives of a frame's commands once the frame is submitted
Strip(c) == [i \in 1..Len(c) |-> [Command(c[i].op) EXCEPT !.ib = c[i].ib, !.bound = c[i].bound]]

-----------------------------------------------------------------------------
(* The applet's helper functions.  They work on a record `a` of the fields   *)
(* they touch, so that a handler can run several of them in sequence.  A     *)
(* helper does nothing once the process has ended (a.status # "running").    *)

Applet ==
  [status |-> status, m_frame |-> m_frame, sceneValid |-> sceneValid,
   m_renderSize |-> m_renderSize, m_outputSize |-> m_outputSize,
   m_dlssSizes |-> m_dlssSizes, ngxInit |-> ngxInit, dlss |-> dlss,
   renderBufSize |-> renderBufSize, outputBufSize |-> outputBufSize,
   errLog |-> 0,
   busy |-> (cmd # <<>> \/ inFlight # <<>>), waited |-> FALSE, destroyed |-> "none",
   m_dlssQuality |-> m_dlssQuality, queried |-> NoQuery, calls |-> <<>>]

Commit(a) ==
  /\ status' = a.status
  /\ m_frame' = a.m_frame
  /\ sceneValid' = a.sceneValid
  /\ m_renderSize' = a.m_renderSize
  /\ m_outputSize' = a.m_outputSize
  /\ m_dlssSizes' = a.m_dlssSizes
  /\ ngxInit' = a.ngxInit
  /\ dlss' = a.dlss
  /\ renderBufSize' = a.renderBufSize
  /\ outputBufSize' = a.outputBufSize
  /\ errLog' = a.errLog
  /\ destroyed' = a.destroyed
  /\ queried' = a.queried
  /\ calls' = a.calls
  /\ uploaded' = uploaded

Alive(a) == a.status = "running"

\* mutation: the handler does not wait for the device
vkDeviceWaitIdle_Skip(a) == a

\* vkDeviceWaitIdle(m_device): returns when all submitted work has completed
vkDeviceWaitIdle(a) ==
  IF ~Alive(a) THEN a ELSE [a EXCEPT !.waited = a.waited \/ a.busy, !.busy = FALSE]

\* a resource used by frames is destroyed or created anew (deinit / destroy / init)
DestroyResource(a) ==
  [a EXCEPT !.destroyed = IF a.busy \/ a.destroyed = "unsafe" THEN "unsafe"
                          ELSE IF a.waited THEN "afterWait" ELSE "idle"]

\* checkNgxResult: a failed result is logged, the result is handed back
checkNgxResult(a, ok) ==
  IF ok THEN a ELSE [a EXCEPT !.errLog = a.errLog + 1]

\* mutation: NGX_ABORT_ON_FAIL without myExit()
NGX_ABORT_ON_FAIL_NoExit(a, ok) ==
  IF ~Alive(a) THEN a ELSE checkNgxResult(a, ok)

\* NGX_ABORT_ON_FAIL: log through checkNgxResult, then myExit() on failure
NGX_ABORT_ON_FAIL(a, ok) ==
  IF ~Alive(a) THEN a
  ELSE IF ok THEN a
  ELSE [checkNgxResult(a, FALSE) EXCEPT !.status = "exited"]

\* mutation: NGX_CHECK that exits like NGX_ABORT_ON_FAIL
NGX_CHECK_Abort(a, ok) ==
  IF ok THEN a ELSE [checkNgxResult(a, FALSE) EXCEPT !.status = "exited"]

\* NGX_CHECK: log through checkNgxResult and carry on
NGX_CHECK(a, ok) == checkNgxResult(a, ok)

\* mutation: resetFrame that leaves the frame counter alone
resetFrame_Keep(a) == a

resetFrame(a) == IF ~Alive(a) THEN a ELSE [a EXCEPT !.m_frame = 0]

createInputGbuffers(a, inputSize) ==
  IF ~Alive(a) THEN a
  ELSE resetFrame([DestroyResource(a) EXCEPT !.renderBufSize = inputSize])

\* mutation: the output buffers are not allocated anew
createOutputGbuffer_Keep(a, outputSize) ==
  IF ~Alive(a) THEN a ELSE resetFrame(a)

createOutputGbuffer(a, outputSize) ==
  IF ~Alive(a) THEN a
  ELSE resetFrame([DestroyResource(a) EXCEPT !.outputBufSize = outputSize])

\* a call into the wrapper: the function, whether the DlssRR instance holds a
\* feature handle when it is entered, and whether it releases a feature
Call(fn, handle, released) == [fn |-> fn, handle |-> handle, released |-> released]

\* mutation: deinit releases the feature and keeps the handle
DlssDeinit_KeepHandle(a) ==
  IF ~Alive(a) THEN a
  ELSE LET b == [a EXCEPT !.calls = Append(@, Call("DlssRR::deinit", a.dlss.handle,
                                                      a.dlss.handle))]
       IN  IF a.dlss.handle THEN DestroyResource(b) ELSE b

\* DlssRR::deinit: releases the feature if there is one
DlssDeinit(a) ==
  IF ~Alive(a) THEN a
  ELSE LET b == [a EXCEPT !.calls = Append(@, Call("DlssRR::deinit", a.dlss.handle,
                                                      a.dlss.handle))]
       IN  IF a.dlss.handle THEN [DestroyResource(b) EXCEPT !.dlss.handle = FALSE]
           ELSE b

\* NgxContext::deinit
NgxDeinit(a) ==
  IF ~Alive(a) THEN a
  ELSE [a EXCEPT !.ngxInit = FALSE,
                 !.calls = Append(@, Call("NgxContext::deinit", a.dlss.handle, FALSE))]

\* mutation: init reports the result of the creation and stores no handle
initDlssRR_NoHandle(a, inputSize, outputSize, createOk) ==
  IF ~Alive(a) THEN a
  ELSE LET b == [a EXCEPT !.dlss.inputSize = inputSize, !.dlss.outputSize = outputSize,
                          !.calls = Append(@, Call("DlssRR::init", a.dlss.handle, FALSE))]
       IN  checkNgxResult(b, createOk)

\* NgxContext::initDlssRR -> DlssRR::init; createOk is the result of
\* NGX_VULKAN_CREATE_DLSSD_EXT1
initDlssRR(a, inputSize, outputSize, createOk) ==
  IF ~Alive(a) THEN a
  ELSE LET b == [a EXCEPT !.dlss.inputSize = inputSize, !.dlss.outputSize = outputSize,
                          !.calls = Append(@, Call("DlssRR::init", a.dlss.handle, FALSE))]
       IN  IF createOk THEN [b EXCEPT !.dlss.handle = TRUE]
           ELSE checkNgxResult(b, FALSE)

\* NgxContext::querySupportedDlssInputSizes as called by reinitDlss
querySupportedDlssInputSizes(a) ==
  [a EXCEPT !.queried = [outputSize |-> a.m_outputSize, quality |-> a.m_dlssQuality]]

\* mutation: the render size is not set to the optimal size of the query
reinitDlss_KeepSize(a, querySizes, queryOk, reply, createOk) ==
  IF ~Alive(a) THEN a
  ELSE
    LET a1 == DlssDeinit(vkDeviceWaitIdle(a))
        a2 == IF querySizes
              THEN LET q == NGX_ABORT_ON_FAIL(querySupportedDlssInputSizes(a1), queryOk)
                   IN  IF Alive(q) THEN [q EXCEPT !.m_dlssSizes = reply] ELSE q
              ELSE a1
        a3 == NGX_ABORT_ON_FAIL(initDlssRR(a2, a2.m_renderSize, a2.m_outputSize, createOk),
                                createOk)
    IN  createInputGbuffers(a3, a3.m_renderSize)

\* DlssApplet::reinitDlss.  queryOk / reply: result of the size query,
\* createOk: result of the feature creation
reinitDlss(a, querySizes, queryOk, reply, createOk) ==
  IF ~Alive(a) THEN a
  ELSE
    LET a1 == DlssDeinit(vkDeviceWaitIdle(a))
        a2 == IF querySizes
              THEN LET q == NGX_ABORT_ON_FAIL(querySupportedDlssInputSizes(a1), queryOk)
                   IN  IF Alive(q)
                       THEN [q EXCEPT !.m_dlssSizes = reply, !.m_renderSize = reply.optimalSize]
                       ELSE q
              ELSE a1
        a3 == NGX_ABORT_ON_FAIL(initDlssRR(a2, a2.m_renderSize, a2.m_outputSize, createOk),
                                createOk)
    IN  createInputGbuffers(a3, a3.m_renderSize)

\* DlssApplet::createScene; keepOld: whether the scene object of the older
\* applet still reports valid() after a failed load (it is not destroyed first)
createScene(a, loadOk, keepOld) ==
  IF ~Alive(a) THEN a
  ELSE IF loadOk THEN [DestroyResource(a) EXCEPT !.sceneValid = TRUE]
  ELSE IF variant = "core2" THEN [DestroyResource(a) EXCEPT !.sceneValid = FALSE]
  ELSE [a EXCEPT !.sceneValid = a.sceneValid /\ keepOld]

\* DlssApplet::createHdr: the environment map is loaded anew
createHdr(a) == IF ~Alive(a) THEN a ELSE DestroyResource(a)

\* mutation: NGX is shut down before the feature is released
destroyResources_NgxFirst(a) ==
  LET a1 == DestroyResource(DlssDeinit(NgxDeinit(a)))
  IN  [a1 EXCEPT !.sceneValid = FALSE, !.renderBufSize = NoSize, !.outputBufSize = NoSize]

\* DlssApplet::destroyResources
destroyResources(a) ==
  LET a1 == DestroyResource(NgxDeinit(DlssDeinit(a)))
  IN  [a1 EXCEPT !.sceneValid = FALSE, !.renderBufSize = NoSize, !.outputBufSize = NoSize]

-----------------------------------------------------------------------------
(* Initial state: the applet object right after construction *)

\* no shader invocation is followed
NoLaunch == [usePsr |-> FALSE, maxDepth |-> 0]
NoInvocation == [pos |-> "off"]

AppletInit ==
  /\ variant \in Variants
  /\ status = "constructed"
  /\ phase = "ui"
  /\ viewportSet = FALSE
  /\ sceneValid = FALSE
  /\ m_frame = 0
  /\ pushFrame = -1
  /\ m_settings = [maxDepth |-> 5, maxFrames |-> 200000]
  /\ m_frameInfo = [view |-> ZeroMatrix, proj |-> ZeroMatrix, prevMVP |-> ZeroMatrix,
                    jitter |-> [x |-> <<0, 1>>, y |-> <<0, 1>>],
                    flags |-> {FLAGS_USE_PSR, FLAGS_USE_PATH_REGULARIZATION}]
  /\ camera = 0
  /\ m_renderSize = <<1, 1>>
  /\ m_outputSize = <<1, 1>>
  /\ m_dlssQuality = "MaxQuality"
  /\ m_dlssPreset = "Default"
  /\ m_dlssSizes = [minSize |-> NoSize, maxSize |-> NoSize, optimalSize |-> NoSize]
  /\ specHitEnable = TRUE
  /\ ngxInit = FALSE
  /\ dlss = [handle |-> FALSE, inputSize |-> NoSize, outputSize |-> NoSize]
  /\ renderBufSize = NoSize
  /\ outputBufSize = NoSize
  /\ cmd = <<>>
  /\ inFlight = <<>>
  /\ errLog = 0
  /\ events = 0
  /\ lastOp = "construct"
  /\ destroyed = "none"
  /\ queried = NoQuery
  /\ calls = <<>>
  /\ uploaded = <<>>
  /\ lastFail = "none"
  /\ pendingReset = "first"
  /\ sinceResChange = -1

Init ==
  /\ AppletInit
  /\ launch = NoLaunch
  /\ px = NoInvocation
  /\ images = <<>>
  /\ traced = <<>>

-----------------------------------------------------------------------------
(* Handlers *)

\* NgxContext::init; ok is the result of the NGX calls it makes
NgxInit(a, ok) ==
  IF ~Alive(a) THEN a
  ELSE IF ok THEN [a EXCEPT !.ngxInit = TRUE]
  ELSE checkNgxResult([a EXCEPT !.ngxInit = FALSE], FALSE)

\* isDlssRRAvailable fails: LOGE and exit(EXIT_FAILURE)
ExitUnlessAvailable(a, avail) ==
  IF ~Alive(a) THEN a
  ELSE IF avail THEN a ELSE [a EXCEPT !.status = "exited"]

\* what NGX answers during one reinitDlss: the size query fails, or it succeeds
\* with a reply and the feature creation then succeeds or fails
NgxOutcomes ==
  {[queryOk |-> FALSE, reply |-> r, createOk |-> TRUE] :
     r \in {[minSize |-> NoSize, maxSize |-> NoSize, optimalSize |-> NoSize]}}
  \cup [queryOk : {TRUE}, reply : SizeReplies, createOk : BOOLEAN]

NoNgx == {[queryOk |-> TRUE, reply |-> [minSize |-> NoSize, maxSize |-> NoSize,
                                        optimalSize |-> NoSize], createOk |-> TRUE]}

\* reinitDlss(false): the size query is not made
CreateOutcomes ==
  {[queryOk |-> TRUE, reply |-> [minSize |-> NoSize, maxSize |-> NoSize,
                                 optimalSize |-> NoSize], createOk |-> c] : c \in BOOLEAN}

\* the failure an NGX outcome stands for
FailOf(n) ==
  IF ~n.queryOk THEN "sizeQuery" ELSE IF ~n.createOk THEN "initDlssRR" ELSE "none"

AttachBody(a0, avail, ngxOk, queryOk, reply, createOk) ==
  IF variant = "core2"
  THEN LET a1 == ExitUnlessAvailable(a0, avail)
           a2 == NGX_ABORT_ON_FAIL(NgxInit(a1, ngxOk), ngxOk)
           a3 == createInputGbuffers(a2, a2.m_renderSize)
       IN  createOutputGbuffer(a3, a3.m_outputSize)
  ELSE LET a1 == NGX_ABORT_ON_FAIL(NgxInit(a0, ngxOk), ngxOk)
           a2 == ExitUnlessAvailable(a1, avail)
           a3 == reinitDlss(a2, TRUE, queryOk, reply, createOk)
           a4 == createInputGbuffers(a3, a3.m_renderSize)
       IN  createInputGbuffers(a4, a4.m_outputSize)

onAttach ==
  /\ status = "constructed"
  /\ \E win \in WindowSizes, up \in {"ok", "unavailable", "ngxInitFails"} :
       \E n \in (IF variant = "legacy" /\ up = "ok" THEN NgxOutcomes ELSE NoNgx) :
         /\ Commit(AttachBody([Applet EXCEPT !.status = "running", !.m_outputSize = win],
                              up # "unavailable", up # "ngxInitFails",
                              n.queryOk, n.reply, n.createOk))
         /\ lastFail' = IF up = "ok" THEN FailOf(n) ELSE up
  /\ lastOp' = "onAttach"
  /\ pendingReset' = "first"
  /\ sinceResChange' = -1
  /\ UNCHANGED <<shaderVars, variant, phase, viewportSet, pushFrame, m_settings, m_frameInfo, camera,
                 m_dlssQuality, m_dlssPreset, specHitEnable, cmd, inFlight, events>>

ResizeBody(a, size, queryOk, reply, createOk) ==
  LET a0 == vkDeviceWaitIdle(a)
      a1 == [a0 EXCEPT !.m_outputSize = <<Max(MinOutputDim, size[1]), Max(MinOutputDim, size[2])>>]
      a2 == createOutputGbuffer(a1, a1.m_outputSize)
  IN  reinitDlss(a2, TRUE, queryOk, reply, createOk)

\* vkDeviceWaitIdle: everything submitted has completed
onResize ==
  /\ status = "running"
  /\ phase = "ui"
  /\ events < MaxEvents
  /\ events' = events + 1
  /\ \E size \in WindowSizes, n \in NgxOutcomes :
       /\ Commit(ResizeBody(Applet, size, n.queryOk, n.reply, n.createOk))
       /\ lastFail' = FailOf(n)
  /\ viewportSet' = TRUE
  /\ cmd' = <<>>
  /\ inFlight' = <<>>
  /\ lastOp' = "onResize"
  /\ pendingReset' = "onResize"
  /\ sinceResChange' = -1
  /\ UNCHANGED <<shaderVars, variant, phase, pushFrame, m_settings, m_frameInfo, camera,
                 m_dlssQuality, m_dlssPreset, specHitEnable>>

FileDropBody(a, kind, loadOk, keepOld) ==
  LET a0 == vkDeviceWaitIdle(a)
      a1 == IF kind = "gltf" THEN createScene(a0, loadOk, keepOld)
            ELSE IF kind = "hdr" THEN resetFrame(createHdr(a0))
            ELSE a0
  IN  resetFrame(a1)

onFileDrop ==
  /\ status = "running"
  /\ phase = "ui"
  /\ events < MaxEvents
  /\ events' = events + 1
  /\ \E kind \in {"gltf", "hdr", "other"} :
       \E load \in (IF kind = "gltf" THEN {"ok", "fails", "failsKeepsOld"} ELSE {"ok"}) :
         /\ Commit(FileDropBody(Applet, kind, load = "ok", load = "failsKeepsOld"))
         /\ lastFail' = IF load = "ok" THEN "none" ELSE "sceneLoad"
         /\ pendingReset' = "fileDrop"
  /\ cmd' = <<>>
  /\ inFlight' = <<>>
  /\ lastOp' = "onFileDrop"
  /\ sinceResChange' = -1
  /\ UNCHANGED <<shaderVars, variant, phase, viewportSet, pushFrame, m_settings, m_frameInfo, camera,
                 m_dlssQuality, m_dlssPreset, specHitEnable>>

onDetach ==
  /\ status = "running"
  /\ phase = "ui"
  /\ Commit([destroyResources(vkDeviceWaitIdle(Applet)) EXCEPT !.status = "detached"])
  /\ cmd' = <<>>
  /\ inFlight' = <<>>
  /\ lastOp' = "onDetach"
  /\ lastFail' = "none"
  /\ UNCHANGED <<shaderVars, variant, phase, viewportSet, pushFrame, m_settings, m_frameInfo, camera,
                 m_dlssQuality, m_dlssPreset, specHitEnable, pendingReset, sinceResChange,
                 events>>

-----------------------------------------------------------------------------
(* onUIRender: one user input per frame *)

UIKinds == {"none", "depth", "frames", "sky", "hdr", "psr", "camera", "specHit",
            "quality", "preset", "width", "height", "keyM"}

\* inputs after which onUIRender ends with reset == true
ResetInputs == {"depth", "frames", "sky", "hdr", "quality", "preset", "width", "height", "keyM"}

\* the values the widget of an input can deliver in the current state
UIValues(kind) ==
  CASE kind = "depth"   -> Depths \ {m_settings.maxDepth}
    [] kind = "frames"  -> FrameCaps \ {m_settings.maxFrames}
    [] kind = "camera"  -> Cameras \ {camera}
    [] kind = "quality" -> Qualities \ {m_dlssQuality}
    [] kind = "preset"  -> Presets \ {m_dlssPreset}
    [] kind = "width"   -> IF m_dlssSizes.optimalSize = NoSize THEN {}
                           ELSE {m_dlssSizes.minSize[1], m_dlssSizes.maxSize[1]} \ {m_renderSize[1]}
    [] kind = "height"  -> IF m_dlssSizes.optimalSize = NoSize THEN {}
                           ELSE {m_dlssSizes.minSize[2], m_dlssSizes.maxSize[2]} \ {m_renderSize[2]}
    [] kind = "keyM"    -> IF variant = "legacy" THEN {0} ELSE {}
    [] OTHER            -> {0}

\* render size chosen with the "Input Width" / "Input Height" sliders;
\* aspect = optimalSize.width / optimalSize.height
SliderSize(kind, val) ==
  LET ow == m_dlssSizes.optimalSize[1]
      oh == m_dlssSizes.optimalSize[2]
  IN  IF kind = "width" THEN <<val, (val * oh) \div ow>>
      ELSE <<(val * ow) \div oh, val>>

UIBody(a, kind, val, queryOk, reply, createOk) ==
  LET a1 == CASE kind = "quality" ->
                   reinitDlss([a EXCEPT !.m_dlssQuality = val], TRUE, queryOk, reply, createOk)
              [] kind = "preset" -> reinitDlss(a, TRUE, queryOk, reply, createOk)
              [] kind \in {"width", "height"} ->
                   reinitDlss([a EXCEPT !.m_renderSize = SliderSize(kind, val)],
                              FALSE, queryOk, reply, createOk)
              [] kind = "keyM" -> ResizeBody(a, a.m_outputSize, queryOk, reply, createOk)
              [] OTHER -> a
  IN  IF kind \in ResetInputs THEN resetFrame(a1) ELSE a1

\* inputs that reach vkDeviceWaitIdle
WaitsIdle(kind) == kind \in {"quality", "preset", "width", "height", "keyM"}

onUIRender ==
  /\ status = "running"
  /\ phase = "ui"
  /\ viewportSet
  /\ \E kind \in UIKinds :
       \E val \in UIValues(kind),
          n \in (IF kind \in {"width", "height"} THEN CreateOutcomes
                ELSE IF WaitsIdle(kind) THEN NgxOutcomes ELSE NoNgx) :
         /\ kind # "none" => events < MaxEvents
         /\ events' = IF kind = "none" THEN events ELSE events + 1
         /\ Commit(UIBody(Applet, kind, val, n.queryOk, n.reply, n.createOk))
         /\ m_settings' = CASE kind = "depth"  -> [m_settings EXCEPT !.maxDepth = val]
                            [] kind = "frames" -> [m_settings EXCEPT !.maxFrames = val]
                            [] OTHER -> m_settings
         /\ m_frameInfo' =
              CASE kind = "sky" -> [m_frameInfo EXCEPT !.flags = @ \cup {FLAGS_ENVMAP_SKY}]
                [] kind = "hdr" -> [m_frameInfo EXCEPT !.flags = @ \ {FLAGS_ENVMAP_SKY}]
                [] kind = "psr" -> [m_frameInfo EXCEPT !.flags =
                                      IF FLAGS_USE_PSR \in @ THEN @ \ {FLAGS_USE_PSR}
                                      ELSE @ \cup {FLAGS_USE_PSR}]
                [] OTHER -> m_frameInfo
         /\ camera' = IF kind = "camera" THEN val ELSE camera
         /\ specHitEnable' = IF kind = "specHit" THEN ~specHitEnable ELSE specHitEnable
         /\ m_dlssQuality' = IF kind = "quality" THEN val ELSE m_dlssQuality
         /\ m_dlssPreset' = IF kind = "preset" THEN val ELSE m_dlssPreset
         /\ inFlight' = IF WaitsIdle(kind) THEN <<>> ELSE Strip(cmd)
         /\ lastFail' = FailOf(n)
         /\ pendingReset' = IF kind \in ResetInputs THEN kind ELSE pendingReset
         /\ sinceResChange' = IF kind \in {"width", "height"} THEN 0
                              ELSE IF kind \in ResetInputs THEN -1
                              ELSE sinceResChange
         /\ lastOp' = "onUIRender"
  /\ cmd' = <<>>
  /\ phase' = IF status' = "running" THEN "render" ELSE phase
  /\ UNCHANGED <<shaderVars, variant, viewportSet, pushFrame>>

-----------------------------------------------------------------------------
(* onRender *)

\* "Make Guide Buffers writeable to raytracer"
BarrierGuideWritable ==
  IF variant = "core2"
  THEN cmdImageBarriers({imageShaderReadToWrite(i, "COMPUTE", "RAY_TRACING") : i \in RenderBufferName})
  ELSE cmdImageBarriers({imageShaderReadToWrite("Color", "COMPUTE", "COMPUTE")})

\* "Make Guide Buffers readable to DLSS_RR"
BarrierGuideReadable ==
  IF variant = "core2"
  THEN cmdImageBarriers({imageShaderWriteToRead(i, "RAY_TRACING", "COMPUTE") : i \in RenderBufferName}
                        \cup {imageShaderReadToWrite("ColorOut", "COMPUTE", "COMPUTE")})
  ELSE cmdImageBarriers({imageShaderWriteToRead("Color", "COMPUTE", "COMPUTE"),
                         imageShaderReadToWrite("ColorOut", "COMPUTE", "COMPUTE")})

\* "Make denoised image readable to tonemapper"
BarrierDenoisedReadable ==
  cmdImageBarriers({imageShaderWriteToRead("ColorOut", "COMPUTE", "COMPUTE"),
                    imageShaderReadToWrite("Ldr", "COMPUTE", "COMPUTE")})

\* "Make tonemapped image readabble to ImGUI": recorded by the core2 applet only
BarrierLdrReadable ==
  IF variant = "core2"
  THEN <<cmdImageBarriers({imageShaderReadToWrite("Ldr", "COMPUTE", "FRAGMENT")})>>
  ELSE <<>>

\* setDlssResources: the images handed to DLSS_RR for this frame
setDlssResources ==
  (IF specHitEnable THEN RenderBufferName ELSE RenderBufferName \ {"SpecHitDist"})
  \cup {"ColorOut"}

\* mutation: reset raised on the first two frames
DenoiseReset_Early == (m_frame <= 1)

\* the reset argument of DlssRR::denoise
DenoiseReset == (m_frame = 0)

\* mutation: onRender without m_frame++
NextFrame_Stuck == m_frame

\* m_frame++
NextFrame == m_frame + 1

\* mutation: push constant taken from the incremented counter
PushConstFrame_Next == m_frame + 1

\* m_pushConst.frame = m_frame
PushConstFrame == m_frame

\* DlssRR::denoise: the evaluation is recorded; ok is what NGX returns
Denoise(ok) ==
  [Command("denoise") EXCEPT !.reset = DenoiseReset, !.ok = ok, !.bound = setDlssResources,
                             !.renderSize = m_renderSize, !.frame = m_frame,
                             !.event = pendingReset, !.since = sinceResChange]

\* raytraceScene: push constants and vkCmdTraceRaysKHR
Raytrace == [Command("raytrace") EXCEPT !.frame = PushConstFrame, !.renderSize = renderBufSize]

\* the part of onRender before setDlssResources
RenderHead ==
  <<Command("updateBuffer"), BarrierGuideWritable, Raytrace, BarrierGuideReadable>>

\* mutation: onRender without the barrier between the denoise and the tonemap
RenderTail_NoBarrier(ok) ==
  <<Denoise(ok), Command("tonemap")>> \o BarrierLdrReadable

\* the part of onRender from the denoise call on
RenderTail(ok) ==
  <<Denoise(ok), BarrierDenoisedReadable, Command("tonemap")>> \o BarrierLdrReadable

\* the loop of halton: s holds what is left of the index on each axis, z and w the
\* digits accumulated so far as numerators over dx = 2^k and dy = 3^k
RECURSIVE HaltonLoop(_, _, _, _, _, _)
HaltonLoop(sx, sy, z, w, dx, dy) ==
  IF sx > 0 /\ sy > 0
    THEN HaltonLoop(sx \div 2, sy \div 3, 2 * z + (sx % 2), 3 * w + (sy % 3), 2 * dx, 3 * dy)
    ELSE [x |-> <<z, dx>>, y |-> <<w, dy>>]

\* halton(index): each coordinate an exact fraction <<numerator, denominator>>
halton(index) == HaltonLoop(index, index, 0, 0, 1, 1)

\* halton(m_frame) - vec2(0.5)
Jitter(index) ==
  LET h == halton(index)
  IN  [x |-> <<2 * h.x[1] - h.x[2], 2 * h.x[2]>>, y |-> <<2 * h.y[1] - h.y[2], 2 * h.y[2]>>]

\* frame info computed at the start of onRender
UpdateFrameInfo ==
  [m_frameInfo EXCEPT !.prevMVP = <<m_frameInfo.proj, m_frameInfo.view>>,
                      !.view = camera,
                      !.proj = <<"perspective", m_outputSize>>,
                      !.jitter = Jitter(m_frame)]

\* vkCmdUpdateBuffer(cmd, m_bFrameInfo.buffer, ..., &m_frameInfo): what the frame's shaders
\* read as view and projection
UploadFrameInfo(info) == <<[proj |-> info.proj, view |-> info.view]>>

\* setDlssResources and the denoise call, as calls into DlssRR
DlssCalls ==
  <<Call("DlssRR::setResource", dlss.handle, FALSE), Call("DlssRR::denoise", dlss.handle, FALSE)>>

onRenderSkip ==
  /\ status = "running"
  /\ phase = "render"
  /\ ~sceneValid
  /\ phase' = "present"
  /\ errLog' = 0
  /\ calls' = <<>>
  /\ uploaded' = uploaded
  /\ lastOp' = "onRenderSkip"
  /\ UNCHANGED <<shaderVars, variant, status, viewportSet, sceneValid, m_frame, pushFrame, m_settings,
                 m_frameInfo, camera, m_renderSize, m_outputSize, m_dlssQuality, m_dlssPreset,
                 m_dlssSizes, specHitEnable, ngxInit, dlss, renderBufSize, outputBufSize,
                 cmd, inFlight, events, destroyed, queried, lastFail, pendingReset,
                 sinceResChange>>

onRender ==
  /\ status = "running"
  /\ phase = "render"
  /\ sceneValid
  /\ m_frame < MaxFrame
  /\ \E ok \in BOOLEAN :
       /\ (~dlss.handle => ~ok)
       /\ cmd' = RenderHead \o RenderTail(ok)
       /\ errLog' = NGX_CHECK(Applet, ok).errLog
       /\ status' = NGX_CHECK(Applet, ok).status
       /\ lastFail' = IF ok THEN "none" ELSE "denoise"
  /\ m_frameInfo' = UpdateFrameInfo
  /\ pushFrame' = PushConstFrame
  /\ destroyed' = "none"
  /\ queried' = NoQuery
  /\ calls' = DlssCalls
  /\ uploaded' = UploadFrameInfo(UpdateFrameInfo)
  /\ m_frame' = NextFrame
  /\ phase' = "present"
  /\ lastOp' = "onRender"
  /\ pendingReset' = "none"
  /\ sinceResChange' = IF sinceResChange < 0 THEN -1 ELSE Min(sinceResChange + 1, MaxFrame)
  /\ UNCHANGED <<shaderVars, variant, viewportSet, sceneValid, m_settings, camera,
                 m_renderSize, m_outputSize, m_dlssQuality, m_dlssPreset, m_dlssSizes,
                 specHitEnable, ngxInit, dlss, renderBufSize, outputBufSize, inFlight,
                 events>>

\* the framework draws the UI; the viewport shows the tonemapped image
Present ==
  /\ status = "running"
  /\ phase = "present"
  /\ cmd' = Append(cmd, Command("uidraw"))
  /\ phase' = "ui"
  /\ errLog' = 0
  /\ calls' = <<>>
  /\ uploaded' = uploaded
  /\ lastOp' = "present"
  /\ UNCHANGED <<shaderVars, variant, status, viewportSet, sceneValid, m_frame, pushFrame, m_settings,
                 m_frameInfo, camera, m_renderSize, m_outputSize, m_dlssQuality, m_dlssPreset,
                 m_dlssSizes, specHitEnable, ngxInit, dlss, renderBufSize, outputBufSize,
                 inFlight, events, destroyed, queried, lastFail, pendingReset, sinceResChange>>

Next ==
  \/ onAttach
  \/ onResize
  \/ onFileDrop
  \/ onUIRender
  \/ onRenderSkip
  \/ onRender
  \/ Present
  \/ onDetach

Spec == Init /\ [][Next]_vars

TypeOK ==
  /\ variant \in Variants
  /\ status \in {"constructed", "running", "exited", "aborted", "detached"}
  /\ phase \in {"ui", "render", "present"}
  /\ m_frame \in 0..MaxFrame
  /\ events \in 0..MaxEvents

-----------------------------------------------------------------------------
(* primary.rgen: one invocation of main(), for one pixel.  Radiance,          *)
(* throughput and distances are scalars; what a traced ray returns is chosen  *)
(* by the scene when the ray is traced and kept in `traced`.                  *)

\* "FP16 max number": the hit distance the miss shaders report
DLSS_INF_DISTANCE == 65504

\* } while(psrDepth < 5);
PsrMaxDepth == 5

ImageNames == {"dlssColor", "dlssObjectMotion", "dlssNormalRoughness", "dlssViewZ",
               "dlssSpecAlbedo", "dlssSpecHitDistance", "dlssBaseColorMetalness"}

\* pc.maxDepth values followed
ShaderDepths == {1, 3}

\* what the invocation reads from frameInfo and pc
Launches == [usePsr : BOOLEAN, maxDepth : ShaderDepths, eyePos : {10}]

\* values an uninitialised float can hold
Garbage == {0, 1}

\* PbrMaterial pbrMat; before the first buildHitInfo
NoMaterial == [uninitialised |-> TRUE]

\* an evaluated material; rough: roughness.x > MICROFACET_MIN_ROUGHNESS^2 + 0.001
Mat(rough, metallic, emissive, opacity) ==
  [rough |-> rough, metallic |-> metallic, emissive |-> emissive, baseColor |-> 1,
   specularColor |-> 1, opacity |-> opacity, N |-> "n"]

SceneMaterials ==
  {Mat(FALSE, 1, 0, 1), Mat(FALSE, 1, 1, 1), Mat(TRUE, 0, 0, 1), Mat(TRUE, 0, 1, 0),
   Mat(FALSE, 0, 0, 1), Mat(TRUE, 1, 0, 1)}

\* smooth and fully metallic: what the loop follows when PSR is on
MirrorLike(mat) == ~mat.rough /\ mat.metallic = 1

\* what a primary ray can return: the miss shader's environment radiance, or a
\* hit with its material and what bsdfSample would answer for a mirror there
PrimaryAnswers ==
  {[kind |-> "primary", hit |-> FALSE, hitT |-> DLSS_INF_DISTANCE, envmapRadiance |-> r] :
     r \in {0, 3}}
  \cup
  {[kind |-> "primary", hit |-> TRUE, hitT |-> t, envmapRadiance |-> 0, mat |-> m,
    event_type |-> e[1], bsdf_over_pdf |-> e[2]] :
     t \in {1, 2}, m \in {x \in SceneMaterials : MirrorLike(x)},
     e \in {<<"GLOSSY_REFLECTION", 2>>, <<"DIFFUSE", 1>>}}
  \cup
  {[kind |-> "primary", hit |-> TRUE, hitT |-> t, envmapRadiance |-> 0, mat |-> m,
    event_type |-> "none", bsdf_over_pdf |-> 0] :
     t \in {1, 2}, m \in {x \in SceneMaterials : ~MirrorLike(x)}}

\* pbrMat.baseColor = vec3(10.0, 0.0, 10.0)
DebugColor == 10

\* -v
Neg(v) == [neg |-> v]

\* no MIS weight computed: the PDF pair and the weight as numerator, denominator
NoWeight == [lightPdf |-> 0, bsdfPdf |-> 0, mis_weight |-> <<0, 1>>]

\* the locals of main() before the PSR loop
PxInit ==
  [pos |-> "psr", psrDepth |-> 0, hitSky |-> FALSE, isPsr |-> FALSE, psrHitDist |-> 0,
   psrThroughput |-> 1, psrDirectRadiance |-> 0, psrMirror |-> <<>>, direction |-> <<>>,
   toEye |-> Neg(<<>>), pbrMat |-> NoMaterial, hdrRadiance |-> 0, directLum |-> 0,
   radiance |-> 0, pathLength |-> 0, event_type |-> "none", throughput |-> 0, depth |-> 0,
   hitT |-> 0, segments |-> 0, bsdfPDF |-> 0, weight |-> 1, misDirect |-> NoWeight,
   misMiss |-> NoWeight]

\* mutation: the loop has no depth bound
PsrLoopTest_Always(psrDepth) == TRUE

\* } while(psrDepth < 5);
PsrLoopTest(psrDepth) == psrDepth < PsrMaxDepth

\* mutation: only the first segment counts
AddHitDist_First(psrHitDist, hitT) == IF psrHitDist = 0 THEN hitT ELSE psrHitDist

\* psrHitDist += payloadPrimary.hitT
AddHitDist(psrHitDist, hitT) == psrHitDist + hitT

\* one pass through the body of the do-while loop.  psrMirror and direction
\* are kept as the list of normals reflected about (empty: identity, orgDirection)
PsrIteration(p, usePsr, ans) ==
  IF ~ans.hit
  THEN [p EXCEPT !.hitSky = TRUE,
                 !.psrDirectRadiance = @ + p.psrThroughput * ans.envmapRadiance,
                 !.pos = "emit"]
  ELSE
    LET p1 == [p EXCEPT !.psrHitDist = AddHitDist(@, ans.hitT), !.pbrMat = ans.mat]
    IN  IF ans.mat.rough \/ ans.mat.metallic < 1 \/ ~usePsr
        THEN [p1 EXCEPT !.pos = "emit"]
        ELSE
          LET p2 == [p1 EXCEPT !.isPsr = TRUE,
                               !.psrDirectRadiance = @ + p1.psrThroughput * ans.mat.emissive]
          IN  IF ans.event_type # "GLOSSY_REFLECTION"
              THEN [p2 EXCEPT !.pbrMat.baseColor = DebugColor, !.pos = "emit"]
              ELSE [p2 EXCEPT !.psrThroughput = @ * ans.bsdf_over_pdf,
                              !.psrMirror = Append(@, ans.mat.N),
                              !.direction = Append(@, ans.mat.N),
                              !.psrDepth = @ + 1,
                              !.pos = IF PsrLoopTest(p2.psrDepth + 1) THEN "psr" ELSE "emit"]

\* eyePos + orgDirection * psrHitDist, on the view axis
virtualOrigin(p, l) == l.eyePos + p.psrHitDist

\* -(frameInfo.view * vec4(virtualOrigin, 1.0)).z
viewDepth(p, l) == virtualOrigin(p, l) - l.eyePos

\* reinhardMax(c) = c / (1 + max component), radiance counted in quarters
reinhardMax(c) == (4 * c) \div (4 + c)

\* computeCameraMotionVector: the projection of motionOrigin with prevMVP
computeCameraMotionVector(motionOrigin) == [prevMVP |-> motionOrigin]

\* pbrMat.metallic, which holds g when pbrMat has not been written
ReadMetallic(mat, g) == IF mat = NoMaterial THEN g ELSE mat.metallic

Store(name, rgb, alpha) == [image |-> name, rgb |-> rgb, alpha |-> alpha]

\* imageStore: the value is appended to what the pixel of that image received
imageStore(img, stores) ==
  [n \in ImageNames |->
     img[n] \o [k \in 1..Len(SelectSeq(stores, LAMBDA x : x.image = n)) |->
                  LET x == SelectSeq(stores, LAMBDA y : y.image = n)[k]
                  IN  <<x.rgb, x.alpha>>]]

\* mutation: the sky colour goes to the diffuse albedo as it is
SkyAlbedo_Raw(c) == c

\* "Use a tonemapped version of the sky color as demodulation guide"
SkyAlbedo(c) == reinhardMax(c)

\* mutation: the sky path leaves the specular hit distance unwritten
SkyStores_NoSpecHit(p, l, g) ==
  <<Store("dlssColor", p.psrDirectRadiance, 1),
    Store("dlssSpecAlbedo", 0, 0),
    Store("dlssBaseColorMetalness", SkyAlbedo(p.psrDirectRadiance),
          ReadMetallic(p.pbrMat, g)),
    Store("dlssNormalRoughness", 0, 0),
    IF ~p.isPsr THEN Store("dlssViewZ", DLSS_INF_DISTANCE, DLSS_INF_DISTANCE)
    ELSE Store("dlssViewZ", viewDepth(p, l), viewDepth(p, l)),
    Store("dlssObjectMotion",
          computeCameraMotionVector(IF ~p.isPsr THEN <<"orgDirection", 0>>
                                    ELSE <<virtualOrigin(p, l), 1>>), 0)>>

\* "Early out when hitting sky (even via mirrors)": the stores, in order
SkyStores(p, l, g) ==
  <<Store("dlssColor", p.psrDirectRadiance, 1),
    Store("dlssSpecAlbedo", 0, 0),
    Store("dlssBaseColorMetalness", SkyAlbedo(p.psrDirectRadiance),
          ReadMetallic(p.pbrMat, g)),
    Store("dlssNormalRoughness", 0, 0),
    Store("dlssSpecHitDistance", 0, 0),
    IF ~p.isPsr THEN Store("dlssViewZ", DLSS_INF_DISTANCE, DLSS_INF_DISTANCE)
    ELSE Store("dlssViewZ", viewDepth(p, l), viewDepth(p, l)),
    Store("dlssObjectMotion",
          computeCameraMotionVector(IF ~p.isPsr THEN <<"orgDirection", 0>>
                                    ELSE <<virtualOrigin(p, l), 1>>), 0)>>

\* the stores of the path that ends on a surface, up to the base colour
SurfaceStores(p, l) ==
  <<Store("dlssViewZ", viewDepth(p, l), viewDepth(p, l)),
    Store("dlssNormalRoughness", [psrMirror |-> p.psrMirror, N |-> p.pbrMat.N],
          [sqrt |-> p.pbrMat.rough]),
    Store("dlssObjectMotion", computeCameraMotionVector(<<virtualOrigin(p, l), 1>>), 0),
    Store("dlssBaseColorMetalness", p.pbrMat.baseColor * p.psrThroughput, p.pbrMat.metallic)>>

\* "Tint the material by the accumulated tinting of the mirrors", and toEye
TintMaterial(p) ==
  [p EXCEPT !.pbrMat.baseColor = @ * p.psrThroughput,
            !.pbrMat.specularColor = @ * p.psrThroughput,
            !.pbrMat.emissive = @ * p.psrThroughput + p.psrDirectRadiance,
            !.toEye = Neg(p.direction),
            !.pos = "shade"]

\* powerHeuristic(a, b) = a^2 / (a^2 + b^2), as numerator and denominator
powerHeuristic(a, b) == <<a * a, b * b + a * a>>

\* the environment light sample and what bsdfEvaluate and the shadow ray say
HdrSample(dotNL, lightPdf, bsdfPdf, occluded) ==
  [dotNL |-> dotNL, lightPdf |-> lightPdf, bsdfPdf |-> bsdfPdf, occluded |-> occluded,
   lightContrib |-> 10, bsdf |-> 1]

HdrSamples ==
  {HdrSample(1, 2, 1, FALSE), HdrSample(0, 2, 1, FALSE), HdrSample(1, 0, 1, FALSE),
   HdrSample(1, 2, 0, FALSE), HdrSample(1, 2, 1, TRUE)}

\* mis_weight * lightContrib / lightPdf, times the evaluated BSDF
HdrRadiance(h) ==
  LET mis_weight == powerHeuristic(h.lightPdf, h.bsdfPdf)
      lightRadiance == (mis_weight[1] * h.lightContrib) \div (mis_weight[2] * h.lightPdf)
  IN  h.bsdf * lightRadiance

\* mutation: the shadow ray is not looked at
HdrContrib_NoShadow(h) ==
  IF h.dotNL > 0 /\ h.lightPdf > 0
  THEN IF h.bsdfPdf > 0 THEN HdrRadiance(h) ELSE 0
  ELSE 0

HdrContrib(h) ==
  IF h.dotNL > 0 /\ h.lightPdf > 0
  THEN IF h.bsdfPdf > 0
       THEN IF ~h.occluded THEN HdrRadiance(h) ELSE 0
       ELSE 0
  ELSE 0

\* the MIS weight HdrContrib computed, if it came to compute one
HdrWeight(h) ==
  IF h.dotNL > 0 /\ h.lightPdf > 0 /\ h.bsdfPdf > 0
  THEN [lightPdf |-> h.lightPdf, bsdfPdf |-> h.bsdfPdf,
        mis_weight |-> powerHeuristic(h.lightPdf, h.bsdfPdf)]
  ELSE NoWeight

\* NB_LIGHTS is 0: the loop over the lights is compiled out
DirectLight(p) == 0

\* what bsdfSample answers at the shaded surface
BsdfSamples ==
  {[event_type |-> "ABSORB", bsdf_over_pdf |-> 0, pdf |-> 0],
   [event_type |-> "DIFFUSE", bsdf_over_pdf |-> 1, pdf |-> 1],
   [event_type |-> "GLOSSY_REFLECTION", bsdf_over_pdf |-> 1, pdf |-> 1]}

ShadeAnswers == {[kind |-> "shade", hdr |-> h, sample |-> b] : h \in HdrSamples, b \in BsdfSamples}

\* STEP 2 and STEP 3.1: direct light, then the sampled direction
ShadeDirect(p, l, c) ==
  [p EXCEPT !.hdrRadiance = HdrContrib(c.hdr),
            !.directLum = DirectLight(p) + p.psrDirectRadiance + p.pbrMat.emissive,
            !.radiance = HdrContrib(c.hdr),
            !.pathLength = 0,
            !.event_type = c.sample.event_type,
            !.throughput = c.sample.bsdf_over_pdf,
            !.bsdfPDF = c.sample.pdf,
            !.weight = 1,
            !.misDirect = HdrWeight(c.hdr),
            !.depth = 1,
            !.pos = IF c.sample.event_type # "ABSORB" /\ 1 < l.maxDepth
                    THEN "indirect" ELSE "final"]

\* what a secondary ray returns: a hit with what the hit shader left in the
\* payload, or a miss with the environment colour and PDF in the ray direction
SecondaryAnswers ==
  {[kind |-> "secondary", hit |-> TRUE, hitT |-> 3, contrib |-> 1, weight |-> 1,
    bsdfPDF |-> 1]}
  \cup
  {[kind |-> "secondary", hit |-> FALSE, hitT |-> 0 - DLSS_INF_DISTANCE, envColor |-> 5,
    envPdf |-> e] : e \in {1, 2}}

\* mutation: the miss shader weighs the environment PDF against the BSDF PDF
MissWeight_Swapped(bsdfPDF, envPdf) == powerHeuristic(envPdf, bsdfPDF)

\* float mis_weight = powerHeuristic(payload.bsdfPDF, envPdf);
MissWeight(bsdfPDF, envPdf) == powerHeuristic(bsdfPDF, envPdf)

\* the payload after traceRayEXT: the secondary miss shader, or the hit shader
SecondaryPayload(p, sec) ==
  IF sec.hit
  THEN [contrib |-> sec.contrib, weight |-> sec.weight, hitT |-> sec.hitT,
        bsdfPDF |-> sec.bsdfPDF, misMiss |-> p.misMiss]
  ELSE LET mis_weight == MissWeight(p.bsdfPDF, sec.envPdf)
       IN  [contrib |-> (mis_weight[1] * sec.envColor) \div mis_weight[2],
            weight |-> p.weight, hitT |-> sec.hitT, bsdfPDF |-> p.bsdfPDF,
            misMiss |-> [lightPdf |-> sec.envPdf, bsdfPdf |-> p.bsdfPDF,
                         mis_weight |-> mis_weight]]

abs(x) == IF x < 0 THEN 0 - x ELSE x

\* mutation: a segment that missed does not end the loop
MissEnds_Never(hitT) == FALSE

\* if(payload.hitT < 0.0) break;
MissEnds(hitT) == hitT < 0

\* mutation: the first segment's distance is recorded whatever the event
RecordsHitDist_AnyEvent(depth, event_type) == depth = 1

\* if(depth == 1 && sampleData.event_type == BSDF_EVENT_GLOSSY_REFLECTION)
RecordsHitDist(depth, event_type) == depth = 1 /\ event_type = "GLOSSY_REFLECTION"

\* one pass through the body of the for loop, and its depth++ and test
IndirectIteration(p, l, sec) ==
  LET payload == SecondaryPayload(p, sec)
      p1 == [p EXCEPT !.hitT = payload.hitT,
                      !.bsdfPDF = payload.bsdfPDF,
                      !.weight = payload.weight,
                      !.misMiss = payload.misMiss,
                      !.segments = @ + 1,
                      !.radiance = @ + payload.contrib * p.throughput,
                      !.throughput = @ * payload.weight,
                      !.pathLength = IF RecordsHitDist(p.depth, p.event_type)
                                     THEN abs(payload.hitT) ELSE @]
  IN  IF MissEnds(payload.hitT) THEN [p1 EXCEPT !.pos = "final"]
      ELSE [p1 EXCEPT !.depth = @ + 1,
                      !.pos = IF p1.depth + 1 < l.maxDepth THEN "indirect" ELSE "final"]

\* EnvironmentTerm_Rtg(specularColor, max(VdotN, 0), roughness.x)
EnvironmentTerm_Rtg(p) ==
  [Rtg |-> <<p.pbrMat.specularColor, p.toEye, p.pbrMat.N, p.pbrMat.rough>>]

\* "Store final specular color at pixel", and the colour
FinalStores(p) ==
  <<Store("dlssSpecAlbedo",
          IF p.event_type # "DIFFUSE" THEN EnvironmentTerm_Rtg(p) ELSE 0, 0),
    Store("dlssSpecHitDistance", p.pathLength, p.pathLength),
    Store("dlssColor", p.radiance + p.directLum, p.pbrMat.opacity)>>

NoImages == [n \in ImageNames |-> <<>>]

\* main() as a function of what it reads: the invocation run from locals p and
\* images img, the rays and samples answering as in log, an uninitialised
\* float holding g
RECURSIVE main(_, _, _, _, _)
main(p, img, l, log, g) ==
  IF p.pos = "done" THEN [px |-> p, images |-> img]
  ELSE IF p.pos = "emit" /\ p.hitSky
  THEN [px |-> [p EXCEPT !.pos = "done"], images |-> imageStore(img, SkyStores(p, l, g))]
  ELSE IF p.pos = "emit"
  THEN main(TintMaterial(p), imageStore(img, SurfaceStores(p, l)), l, log, g)
  ELSE IF p.pos = "final"
  THEN [px |-> [p EXCEPT !.pos = "done"], images |-> imageStore(img, FinalStores(p))]
  ELSE IF log = <<>> THEN [px |-> p, images |-> img]
  ELSE IF p.pos = "psr"
  THEN main(PsrIteration(p, l.usePsr, Head(log)), img, l, Tail(log), g)
  ELSE IF p.pos = "shade"
  THEN main(ShadeDirect(p, l, Head(log)), img, l, Tail(log), g)
  ELSE main(IndirectIteration(p, l, Head(log)), img, l, Tail(log), g)

ShaderInit ==
  /\ AppletInit
  /\ variant = "legacy"
  /\ launch \in Launches
  /\ px = PxInit
  /\ images = NoImages
  /\ traced = <<>>

\* traceRayEXT with PAYLOAD_PRIMARY and the rest of one loop pass
PsrTrace ==
  /\ px.pos = "psr"
  /\ \E ans \in PrimaryAnswers :
       /\ px' = PsrIteration(px, launch.usePsr, ans)
       /\ traced' = Append(traced, ans)
  /\ UNCHANGED <<appletVars, launch, images>>

EmitSky ==
  /\ px.pos = "emit"
  /\ px.hitSky
  /\ \E g \in Garbage :
       /\ (px.pbrMat # NoMaterial => g = 0)
       /\ images' = imageStore(images, SkyStores(px, launch, g))
       /\ traced' = Append(traced, [kind |-> "uninit", value |-> g])
  /\ px' = [px EXCEPT !.pos = "done"]
  /\ UNCHANGED <<appletVars, launch>>

EmitSurface ==
  /\ px.pos = "emit"
  /\ ~px.hitSky
  /\ images' = imageStore(images, SurfaceStores(px, launch))
  /\ px' = TintMaterial(px)
  /\ UNCHANGED <<appletVars, launch, traced>>

Shade ==
  /\ px.pos = "shade"
  /\ \E c \in ShadeAnswers :
       /\ px' = ShadeDirect(px, launch, c)
       /\ traced' = Append(traced, c)
  /\ UNCHANGED <<appletVars, launch, images>>

\* traceRayEXT with PAYLOAD_SECONDARY and the rest of one loop pass
IndirectTrace ==
  /\ px.pos = "indirect"
  /\ \E sec \in SecondaryAnswers :
       /\ px' = IndirectIteration(px, launch, sec)
       /\ traced' = Append(traced, sec)
  /\ UNCHANGED <<appletVars, launch, images>>

StoreFinal ==
  /\ px.pos = "final"
  /\ images' = imageStore(images, FinalStores(px))
  /\ px' = [px EXCEPT !.pos = "done"]
  /\ UNCHANGED <<appletVars, launch, traced>>

ShaderNext == PsrTrace \/ EmitSky \/ EmitSurface \/ Shade \/ IndirectTrace \/ StoreFinal

ShaderSpec == ShaderInit /\ [][ShaderNext]_vars

ShaderTypeOK ==
  /\ launch \in Launches
  /\ px.pos \in {"psr", "emit", "shade", "indirect", "final", "done"}
  /\ px.psrDepth \in 0..PsrMaxDepth
  /\ DOMAIN images = ImageNames

-----------------------------------------------------------------------------
(* The GPU work in flight and the accesses of its stages *)

\* the commands the device may still be executing: the previous frame's,
\* unless the device was waited for, followed by the current frame's
Stream == inFlight \o cmd

\* the images a recorded command touches, with pipeline stage and access
Accesses(c) ==
  CASE c.op = "raytrace" ->
         {[image |-> i, stage |-> "RAY_TRACING", access |-> "SHADER_WRITE"] :
            i \in RenderBufferName}
    [] c.op = "denoise" ->
         {[image |-> i, stage |-> "COMPUTE", access |-> "SHADER_READ"] :
            i \in c.bound \cap RenderBufferName}
         \cup {[image |-> "ColorOut", stage |-> "COMPUTE", access |-> "SHADER_WRITE"]}
    [] c.op = "tonemap" ->
         {[image |-> "ColorOut", stage |-> "COMPUTE", access |-> "SHADER_READ"],
          [image |-> "Ldr", stage |-> "COMPUTE", access |-> "SHADER_WRITE"]}
    [] c.op = "uidraw" ->
         {[image |-> "Ldr", stage |-> "FRAGMENT", access |-> "SHADER_READ"]}
    [] OTHER -> {}

-----------------------------------------------------------------------------
(* Properties *)

StageOps == {"raytrace", "denoise", "tonemap"}

\* positions of an operation in the commands of the current frame
Pos(op) == {i \in DOMAIN cmd : cmd[i].op = op}

BarrierBetween(i, j) == \E k \in (i + 1)..(j - 1) : cmd[k].op = "barrier"

\* an image barrier from write to read on image img between positions i and j
WriteToReadBetween(img, i, j) ==
  \E k \in (i + 1)..(j - 1) :
    /\ cmd[k].op = "barrier"
    /\ \E b \in cmd[k].ib :
          b.image = img /\ b.srcAccess = "SHADER_WRITE" /\ b.dstAccess = "SHADER_READ"

\* C1: a frame recorded by onRender holds the ray trace, the denoise and the
\* tonemap in this order, each exactly once, with a pipeline barrier between
\* the ray trace and the denoise and between the denoise and the tonemap.
C1_StageOrder ==
  lastOp = "onRender" =>
    \E r, d, t \in DOMAIN cmd :
      /\ Pos("raytrace") = {r} /\ Pos("denoise") = {d} /\ Pos("tonemap") = {t}
      /\ r < d /\ d < t
      /\ BarrierBetween(r, d)
      /\ BarrierBetween(d, t)

C1_Witness ==
  /\ lastOp = "onRender"
  /\ m_frame = 2
  /\ Pos("tonemap") # {}

\* C2: between the ray trace and the denoise of a frame there is, for each of
\* the seven render-resolution buffers handed to DLSS_RR, a barrier on that
\* image from shader write to shader read.
C2_GuideBarriers ==
  lastOp = "onRender" =>
    \A r \in Pos("raytrace"), d \in Pos("denoise") :
      \A img \in cmd[d].bound \cap RenderBufferName : WriteToReadBetween(img, r, d)

\* C3: after the tonemap a barrier on the LDR image is recorded whose source is
\* the compute-shader write and whose destination is the fragment-shader read.
C3_LdrBarrier ==
  lastOp = "onRender" =>
    \A t \in Pos("tonemap") :
      \E k \in (t + 1)..Len(cmd) :
        /\ cmd[k].op = "barrier"
        /\ \E b \in cmd[k].ib :
              /\ b.image = "Ldr"
              /\ b.srcStage = "COMPUTE" /\ b.srcAccess = "SHADER_WRITE"
              /\ b.dstStage = "FRAGMENT" /\ b.dstAccess = "SHADER_READ"

\* the accesses a at position i and b at position j of the stream are
\* consecutive accesses of one image by two different stages, one a write
Hazard(i, j, a, b) ==
  /\ i < j
  /\ a.image = b.image
  /\ Stream[i].op # Stream[j].op
  /\ (a.access = "SHADER_WRITE" \/ b.access = "SHADER_WRITE")
  /\ \A k \in (i + 1)..(j - 1) : \A x \in Accesses(Stream[k]) : x.image # a.image

\* a barrier between the two accesses whose masks name both of them
Covered(i, j, a, b) ==
  \E k \in (i + 1)..(j - 1) :
    /\ Stream[k].op = "barrier"
    /\ \E m \in Stream[k].ib :
          /\ m.image = a.image
          /\ m.srcStage = a.stage /\ m.srcAccess = a.access
          /\ m.dstStage = b.stage /\ m.dstAccess = b.access

\* C4: within a frame and from one frame to the next, no two different stages
\* access the same image, one of them writing, without a barrier between them
\* whose stage and access masks cover both accesses.
C4_NoUncoveredHazard ==
  \A i, j \in DOMAIN Stream :
    \A a \in Accesses(Stream[i]), b \in Accesses(Stream[j]) :
      Hazard(i, j, a, b) => Covered(i, j, a, b)

\* C5: the denoise of the first frame rendered at all and of the first frame
\* rendered after a resize, a render-size, quality or preset change, a file
\* drop or a change of depth, frame cap or environment has reset = true.
C5_ResetAfterEvent ==
  \A i \in DOMAIN cmd :
    (cmd[i].op = "denoise" /\ cmd[i].event # "none") => cmd[i].reset

C5_Witness ==
  \E i \in DOMAIN cmd :
    cmd[i].op = "denoise" /\ cmd[i].event = "quality" /\ cmd[i].reset /\ pushFrame = 0

\* C6: after a change of the render resolution the first denoise has
\* reset = true and the denoises of the following frames have reset = false,
\* until the next history-invalidating event.
C6_ResetOnce ==
  \A i \in DOMAIN cmd :
    cmd[i].op = "denoise" =>
      /\ cmd[i].since = 0 => cmd[i].reset
      /\ cmd[i].since > 0 => ~cmd[i].reset

C6_Witness ==
  \E i \in DOMAIN cmd :
    cmd[i].op = "denoise" /\ cmd[i].since = 1 /\ ~cmd[i].reset

\* C7: an onRender that records a frame increments m_frame by exactly one, no
\* other operation increments it, and an onRender with an invalid scene
\* records nothing and leaves m_frame and the frame info as they were.
C7_FrameCounter ==
  [][/\ lastOp' = "onRender" => m_frame' = m_frame + 1
     /\ m_frame' > m_frame => lastOp' = "onRender"
     /\ lastOp' = "onRenderSkip" =>
          cmd' = <<>> /\ m_frame' = m_frame /\ m_frameInfo' = m_frameInfo]_vars

C7_Witness ==
  /\ lastOp = "onRender"
  /\ m_frame = 1
  /\ pushFrame = 0
  /\ events = MaxEvents

\* C8 as stated: the frame index handed to the ray-tracing kernels never
\* decreases from one rendered frame to the next.
C8_FrameIndexMonotonic ==
  [][lastOp' = "onRender" => pushFrame' >= pushFrame]_vars

\* C8 amended: the frame index of a rendered frame is 0 when a
\* history-invalidating event preceded it, otherwise one more than the index
\* of the frame rendered before.
C8_FrameIndexRestarts ==
  [][lastOp' = "onRender" =>
       pushFrame' = IF pendingReset # "none" THEN 0 ELSE pushFrame + 1]_vars

\* a frame with index 0 rendered while the frame before it is still in flight
C8_Witness ==
  /\ lastOp = "onRender"
  /\ pushFrame = 0
  /\ \E j \in DOMAIN inFlight : inFlight[j].op = "raytrace"

\* C9: when the denoise fails, the failure is logged, the barrier and the
\* tonemap after it are recorded all the same, the frame counter advances and
\* the process keeps running.
C9_DenoiseFailSoft ==
  (lastOp = "onRender" /\ lastFail = "denoise") =>
    /\ status = "running"
    /\ errLog > 0
    /\ \E d \in Pos("denoise") :
          /\ ~cmd[d].ok
          /\ d + 2 <= Len(cmd)
          /\ cmd[d + 1].op = "barrier"
          /\ cmd[d + 2].op = "tonemap"
          /\ m_frame = cmd[d].frame + 1

C9_Witness ==
  /\ lastOp = "onRender"
  /\ lastFail = "denoise"
  /\ m_frame = 2

InitFailures == {"unavailable", "ngxInitFails", "sizeQuery", "initDlssRR"}

\* C10 as stated: a scene-load error and every DLSS initialisation error ends
\* the process.
C10_AllFatal ==
  lastFail \in InitFailures \cup {"sceneLoad"} => status = "exited"

\* C10 amended: every DLSS initialisation error ends the process; a scene-load
\* error leaves the process running.
C10_InitFatalLoadSoft ==
  /\ lastFail \in InitFailures => status = "exited"
  /\ lastFail = "sceneLoad" => status = "running"

\* a scene fails to load after a frame has been rendered
C10_Witness ==
  /\ lastFail = "sceneLoad"
  /\ status = "running"
  /\ lastOp = "onFileDrop"
  /\ pushFrame >= 0

\* C11: no handler destroys or recreates a resource used by frames while
\* submitted work may still be executing: the device idle-wait comes first.
C11_IdleBeforeDestroy == destroyed # "unsafe"

\* the render size is changed in the UI while the previous frame is in flight
C11_Witness ==
  /\ destroyed = "afterWait"
  /\ lastOp = "onUIRender"
  /\ pendingReset = "width"
  /\ pushFrame >= 0

\* size lies within the supported range on both axes
InRange(size, sizes) ==
  /\ sizes.minSize[1] <= size[1] /\ size[1] <= sizes.maxSize[1]
  /\ sizes.minSize[2] <= size[2] /\ size[2] <= sizes.maxSize[2]

\* C12: the render size handed to initDlssRR lies within the range the size
\* query returned, on both axes, whatever sizes the UI asked for.
C12_RenderSizeInRange ==
  dlss.inputSize # NoSize => InRange(dlss.inputSize, m_dlssSizes)

\* C13: a quality or preset change in the UI has, by the time the next frame
\* is traced, queried the supported sizes for the current output size and the
\* quality now selected, set the render size to the optimal size of the reply,
\* created the DLSS feature for it and allocated the guide buffers at that size.
C13_RequeryOnQualityChange ==
  [][((m_dlssQuality' # m_dlssQuality \/ m_dlssPreset' # m_dlssPreset) /\ status' = "running") =>
       /\ phase' = "render"
       /\ queried' = [outputSize |-> m_outputSize', quality |-> m_dlssQuality']
       /\ m_renderSize' = m_dlssSizes'.optimalSize
       /\ dlss'.handle
       /\ dlss'.inputSize = m_dlssSizes'.optimalSize
       /\ renderBufSize' = m_dlssSizes'.optimalSize]_vars

\* the quality is changed in the UI after a frame has been rendered
C13_Witness ==
  /\ lastOp = "onUIRender"
  /\ pendingReset = "quality"
  /\ status = "running"
  /\ m_dlssQuality = "MaxPerf"
  /\ m_dlssSizes.optimalSize = <<911, 512>>
  /\ pushFrame >= 0

\* the primary rays traced so far by the invocation
PrimaryTraces == SelectSeq(traced, LAMBDA e : e.kind = "primary")

\* C14: on every control path of main() each of the seven guide images is
\* stored exactly once: never twice, and once when the invocation has returned.
C14_EachImageOnce ==
  \A n \in ImageNames :
    /\ Len(images[n]) <= 1
    /\ px.pos = "done" => Len(images[n]) = 1

\* sky reached through a mirror, and the invocation has returned
C14_Witness ==
  /\ px.pos = "done"
  /\ px.hitSky
  /\ px.isPsr
  /\ \A n \in ImageNames : Len(images[n]) = 1

\* C15: an invocation traces at most five primary rays, whatever the scene.
C15_PsrBounded == Len(PrimaryTraces) <= PsrMaxDepth

\* five mirrors in a row: the loop has stopped at its depth bound
C15_Witness ==
  /\ Len(PrimaryTraces) = PsrMaxDepth
  /\ px.psrDepth = PsrMaxDepth
  /\ px.pos = "emit"
  /\ ~px.hitSky

\* the rays and samples of the invocation, without what uninitialised reads gave
SceneAnswers == SelectSeq(traced, LAMBDA e : e.kind # "uninit")

\* the value the invocation read from an uninitialised float, 0 if it read none
GarbageRead ==
  LET u == SelectSeq(traced, LAMBDA e : e.kind = "uninit")
  IN  IF u = <<>> THEN 0 ELSE u[1].value

\* the invocation that has returned is main() applied to what it was answered
MainIsTheInvocation ==
  px.pos = "done" =>
    main(PxInit, NoImages, launch, SceneAnswers, GarbageRead) = [px |-> px, images |-> images]

\* the same pixel with FLAGS_USE_PSR flipped
OtherLaunch == [launch EXCEPT !.usePsr = ~@]

\* the first primary ray missed, or hit a surface that is not mirror-classified
FirstHitNotMirror ==
  /\ PrimaryTraces # <<>>
  /\ (PrimaryTraces[1].hit => ~MirrorLike(PrimaryTraces[1].mat))

\* C16: when the first primary hit is not mirror-classified, or the primary ray
\* misses, the seven guide values and the colour are the same with
\* FLAGS_USE_PSR set and cleared, for the same scene, frame info and seed.
C16_PsrFlagIrrelevant ==
  (px.pos = "done" /\ FirstHitNotMirror) =>
    \A g \in Garbage :
      main(PxInit, NoImages, OtherLaunch, SceneAnswers, g).images = images

\* the same, for pixels whose first primary ray hits a surface
C16_PsrFlagIrrelevantOnHit ==
  (px.pos = "done" /\ FirstHitNotMirror /\ PrimaryTraces[1].hit) =>
    \A g \in Garbage :
      main(PxInit, NoImages, OtherLaunch, SceneAnswers, g).images = images

\* the primary ray of the pixel missed all geometry
PrimaryMiss == Len(PrimaryTraces) = 1 /\ ~PrimaryTraces[1].hit

\* C17: when the primary ray misses all geometry, the view depth stored is
\* DLSS_INF_DISTANCE, the diffuse albedo stored is reinhardMax of the
\* environment radiance and not the radiance itself, and the raw radiance is
\* stored in the colour image and in no other image.
C17_SkyGuides ==
  (px.pos = "done" /\ PrimaryMiss) =>
    LET raw == PrimaryTraces[1].envmapRadiance
    IN  /\ images["dlssViewZ"] = <<<<DLSS_INF_DISTANCE, DLSS_INF_DISTANCE>>>>
        /\ images["dlssBaseColorMetalness"][1][1] = reinhardMax(raw)
        /\ raw # 0 => images["dlssBaseColorMetalness"][1][1] # raw
        /\ images["dlssColor"] = <<<<raw, 1>>>>
        /\ \A n \in {"dlssSpecAlbedo", "dlssNormalRoughness", "dlssSpecHitDistance"} :
             images[n] = <<<<0, 0>>>>

\* a pixel that sees the lit environment directly has been written
C17_Witness ==
  /\ px.pos = "done"
  /\ PrimaryMiss
  /\ PrimaryTraces[1].envmapRadiance > 0
  /\ images["dlssColor"][1][1] = PrimaryTraces[1].envmapRadiance

\* C18: when the loop ends at its depth bound on a mirror, psrThroughput,
\* psrMirror, psrDirectRadiance and direction are what the non-mirror exit
\* (the break taken at that surface) would have left.
C18_DepthBoundAsNonMirror ==
  [][(px.pos = "psr" /\ px'.pos = "emit" /\ px'.psrDepth = PsrMaxDepth) =>
       LET stopped == PsrIteration(px, FALSE, traced'[Len(traced')])
       IN  /\ px'.psrThroughput = stopped.psrThroughput
           /\ px'.psrMirror = stopped.psrMirror
           /\ px'.psrDirectRadiance = stopped.psrDirectRadiance
           /\ px'.direction = stopped.direction]_vars

\* the surface the PSR loop stopped at, as the ray returned it
PsrSurface == PrimaryTraces[Len(PrimaryTraces)]

\* C19: for a pixel that ends on a surface, the colour stored is the indirect
\* radiance plus the direct radiance at the PSR surface plus the radiance
\* accumulated along the mirror chain, each once, with the opacity in alpha.
C19_ColorSum ==
  (px.pos = "done" /\ ~px.hitSky) =>
    images["dlssColor"] =
      <<<<px.radiance + DirectLight(px) + PsrSurface.mat.emissive * px.psrThroughput
            + px.psrDirectRadiance,
          PsrSurface.mat.opacity>>>>

\* the same, for pixels whose mirror chain accumulated no radiance
C19_ColorSumNoChainRadiance ==
  (px.pos = "done" /\ ~px.hitSky /\ px.psrDirectRadiance = 0) =>
    images["dlssColor"] =
      <<<<px.radiance + DirectLight(px) + PsrSurface.mat.emissive * px.psrThroughput,
          PsrSurface.mat.opacity>>>>

RECURSIVE SumHitT(_)
SumHitT(segs) == IF segs = <<>> THEN 0 ELSE Head(segs).hitT + SumHitT(Tail(segs))

\* C20: when the loop ends on a surface, the view depth stored and the
\* position the motion vector is taken at use the sum of the hit distances of
\* all segments traced, not the first one alone.
C20_VirtualDistance ==
  (px.pos = "done" /\ ~px.hitSky) =>
    /\ images["dlssViewZ"][1][1] = SumHitT(PrimaryTraces)
    /\ images["dlssObjectMotion"][1][1] =
         computeCameraMotionVector(<<launch.eyePos + SumHitT(PrimaryTraces), 1>>)

\* two mirrors, then a surface that is not a mirror
C20_Witness ==
  /\ px.pos = "done"
  /\ ~px.hitSky
  /\ launch.usePsr
  /\ Len(PrimaryTraces) = 3
  /\ px.psrDepth = 2
  /\ ~MirrorLike(PsrSurface.mat)
  /\ images["dlssViewZ"][1][1] > PrimaryTraces[1].hitT + PrimaryTraces[2].hitT

\* the secondary rays traced so far by the invocation
SecondaryTraces == SelectSeq(traced, LAMBDA e : e.kind = "secondary")

\* what bsdfSample answered at the PSR surface, once the surface is shaded
ShadeTraces == SelectSeq(traced, LAMBDA e : e.kind = "shade")

\* C21: the indirect loop traces at most maxDepth - 1 secondary segments, none
\* when the first BSDF sample is an absorb event, and none after a segment
\* that missed (negative hit distance).
C21_IndirectBounded ==
  /\ Len(SecondaryTraces) <= launch.maxDepth - 1
  /\ px.segments = Len(SecondaryTraces)
  /\ \A i \in 1..Len(ShadeTraces) :
       ShadeTraces[i].sample.event_type = "ABSORB" => SecondaryTraces = <<>>
  /\ \A i \in 1..(Len(SecondaryTraces) - 1) : SecondaryTraces[i].hitT >= 0

\* the loop has run to its depth bound and the last segment missed
C21_Witness ==
  /\ px.pos = "done"
  /\ Len(SecondaryTraces) = launch.maxDepth - 1
  /\ Len(SecondaryTraces) = 2
  /\ SecondaryTraces[1].hitT >= 0
  /\ SecondaryTraces[2].hitT < 0

\* the value stored in the specular hit distance image
SpecHitDistance == images["dlssSpecHitDistance"][1][1]

\* the pixel ended on a surface and the first BSDF sample there was a glossy reflection
FirstSampleGlossy ==
  /\ ~px.hitSky
  /\ ShadeTraces # <<>>
  /\ ShadeTraces[1].sample.event_type = "GLOSSY_REFLECTION"

\* C22 as stated: the specular hit distance written is the first indirect
\* segment's hit distance if and only if the first BSDF sample at the PSR
\* surface is a glossy reflection; in every other case it is zero.
C22_SpecHitDistIffGlossy ==
  px.pos = "done" =>
    IF FirstSampleGlossy
    THEN /\ SecondaryTraces # <<>>
         /\ SpecHitDistance = abs(SecondaryTraces[1].hitT)
    ELSE SpecHitDistance = 0

\* C22 amended: the specular hit distance written is the magnitude of the
\* first indirect segment's hit distance when the first BSDF sample is a
\* glossy reflection and a first segment is traced (maxDepth > 1); in every
\* other case, maxDepth = 1 included, it is zero.
C22_SpecHitDistGlossyTraced ==
  px.pos = "done" =>
    IF FirstSampleGlossy /\ launch.maxDepth > 1
    THEN /\ SecondaryTraces # <<>>
         /\ SpecHitDistance = abs(SecondaryTraces[1].hitT)
    ELSE SpecHitDistance = 0

\* a glossy first sample whose segment hit a surface, followed by a second segment
C22_Witness ==
  /\ px.pos = "done"
  /\ FirstSampleGlossy
  /\ Len(SecondaryTraces) = 2
  /\ SecondaryTraces[1].hitT > 0
  /\ SpecHitDistance = SecondaryTraces[1].hitT

\* the four conditions under which the environment light contributes
HdrAccepted(h) == h.dotNL > 0 /\ h.lightPdf > 0 /\ h.bsdfPdf > 0 /\ ~h.occluded

\* the BSDF times the light radiance weighted by the power heuristic of
\* the light PDF against the BSDF PDF and divided by the light PDF
MisWeightedContribution(h) ==
  h.bsdf * ((h.lightPdf * h.lightPdf * h.lightContrib)
              \div ((h.lightPdf * h.lightPdf + h.bsdfPdf * h.bsdfPdf) * h.lightPdf))

\* every combination of the four conditions holding or failing
HdrInputs ==
  {HdrSample(d, lp, bp, o) : d \in {0 - 1, 0, 1}, lp \in {0, 2}, bp \in {0, 1}, o \in BOOLEAN}

\* C23: HdrContrib returns zero unless the light direction is above the
\* shading plane, the light PDF is positive, the BSDF PDF is positive and the
\* shadow ray is unoccluded; then it returns the MIS-weighted contribution.
C23_HdrContribGuards ==
  /\ \A i \in 1..Len(ShadeTraces) :
       px.hdrRadiance = IF HdrAccepted(ShadeTraces[i].hdr)
                        THEN MisWeightedContribution(ShadeTraces[i].hdr) ELSE 0
  /\ \A h \in HdrInputs :
       HdrContrib(h) = IF HdrAccepted(h) THEN MisWeightedContribution(h) ELSE 0

\* a surface has been shaded with an unoccluded environment sample
C23_Witness ==
  /\ ShadeTraces # <<>>
  /\ HdrAccepted(ShadeTraces[1].hdr)
  /\ px.hdrRadiance = MisWeightedContribution(ShadeTraces[1].hdr)
  /\ px.hdrRadiance > 0

\* both estimators have computed a weight, for the same pair of PDFs
SamePdfPair ==
  /\ px.misDirect # NoWeight
  /\ px.misMiss # NoWeight
  /\ px.misDirect.lightPdf = px.misMiss.lightPdf
  /\ px.misDirect.bsdfPdf = px.misMiss.bsdfPdf

\* C24: for the same pair of PDFs, the weight HdrContrib applies and the
\* weight the secondary miss shader applies sum to 1.
C24_MisWeightsSumToOne ==
  SamePdfPair =>
    LET d == px.misDirect.mis_weight
        m == px.misMiss.mis_weight
    IN  d[1] * m[2] + m[1] * d[2] = d[2] * m[2]

\* the first indirect segment escaped, with PDFs 2 and 1 as in the direct sample
C24_Witness ==
  /\ SamePdfPair
  /\ px.misDirect.lightPdf # px.misDirect.bsdfPdf
  /\ px.misDirect.mis_weight = <<4, 5>>
  /\ px.misMiss.mis_weight = <<1, 5>>

\* the places of the calls of function fn among the calls of the latest handler
CallsOf(fn) == {i \in 1..Len(calls) : calls[i].fn = fn}

DenoiseCommands == {i \in 1..Len(cmd) : cmd[i].op = "denoise"}

RECURSIVE RadicalInverseLoop(_, _, _, _)
RadicalInverseLoop(n, base, num, den) ==
  IF n = 0 THEN <<num, den>>
  ELSE RadicalInverseLoop(n \div base, base, base * num + (n % base), base * den)

RadicalInverse(n, base) == RadicalInverseLoop(n, base, 0, 1)

\* a / b = c / d for fractions with positive denominators
RatEq(p, q) == p[1] * q[2] = q[1] * p[2]

\* the frame index the latest onRender passed to halton
JitterIndex == pushFrame

\* C27: on every rendered frame n the jitter uploaded is the Halton point of n, (radical
\* inverse of n in base 2, radical inverse of n in base 3), shifted by -0.5 on both axes.
C27_JitterIsHalton ==
  lastOp = "onRender" =>
    LET rx == RadicalInverse(JitterIndex, 2)
        ry == RadicalInverse(JitterIndex, 3)
    IN  /\ RatEq(m_frameInfo.jitter.x, <<2 * rx[1] - rx[2], 2 * rx[2]>>)
        /\ RatEq(m_frameInfo.jitter.y, <<2 * ry[1] - ry[2], 2 * ry[2]>>)

\* C27, what holds: the jitter lies in [-0.5, 0.5) on both axes, and its second coordinate
\* is built from the low base-3 digits of the frame index.
C27_JitterInRange ==
  lastOp = "onRender" =>
    /\ \A c \in {m_frameInfo.jitter.x, m_frameInfo.jitter.y} :
         /\ c[2] > 0
         /\ 0 - c[2] <= 2 * c[1]
         /\ 2 * c[1] < c[2]

\* frame 2 rendered: base 3 has one digit, base 2 has two
C27_Frame2 == lastOp = "onRender" /\ JitterIndex = 2

\* ---------------------------------------------------------------------------
\* C28: the previous frame's view-projection product

\* a step of onRender that renders a frame
RendersFrame == phase = "render" /\ lastOp' = "onRender"

\* proj * view of the frame info the preceding rendered frame uploaded
PrecedingMVP == <<uploaded[1].proj, uploaded[1].view>>

\* C28: on every rendered frame, the very first one included, the prevMVP uploaded is the
\* product proj * view uploaded for the immediately preceding rendered frame.
C28_PrevMVPIsPrecedingFrame ==
  [][RendersFrame => /\ Len(uploaded) > 0
                     /\ m_frameInfo'.prevMVP = PrecedingMVP]_vars

\* C28, what holds: the prevMVP uploaded is the product of the preceding rendered frame when
\* there is one, whatever happened in between, and the product of the zero-initialised
\* matrices on the very first rendered frame.
C28_PrevMVPAfterFirstFrame ==
  [][RendersFrame => IF Len(uploaded) > 0
                       THEN m_frameInfo'.prevMVP = PrecedingMVP
                       ELSE m_frameInfo'.prevMVP = <<ZeroMatrix, ZeroMatrix>>]_vars

\* the first frame after a reset, rendered with the preceding rendered frame's product
C28_AfterReset ==
  /\ lastOp = "onRender"
  /\ pendingReset = "none"
  /\ pushFrame = 0
  /\ Len(uploaded) > 0
  /\ m_frameInfo.prevMVP[1] # ZeroMatrix

\* ---------------------------------------------------------------------------
\* C29: the feature exists whenever it is used

\* the calls of the latest handler that assert(m_dlssdHandle)
HandleAsserts == CallsOf("DlssRR::setResource") \cup CallsOf("DlssRR::denoise")

Releases == {i \in CallsOf("DlssRR::deinit") : calls[i].released}

\* ~DlssRR can run: the applet was detached and is destroyed when main returns
Destructible == status = "detached"

\* C30: DlssRR::init is entered without a handle; deinit releases the feature exactly when
\* there is a handle, so nothing when there is none; two releases of one handler have an
\* init between them; the handle is null after a deinit and when the applet can be destroyed.
C30_HandleLifeCycle ==
  /\ \A i \in CallsOf("DlssRR::init") : ~calls[i].handle
  /\ \A i \in CallsOf("DlssRR::deinit") : calls[i].released = calls[i].handle
  /\ \A i, j \in Releases : i < j => \E k \in CallsOf("DlssRR::init") : i < k /\ k < j
  /\ (calls # <<>> /\ calls[Len(calls)].fn \in {"DlssRR::deinit", "NgxContext::deinit"})
       => ~dlss.handle
  /\ Destructible => ~dlss.handle

\* a resize that released the live feature and created the next one
C30_Witness ==
  /\ lastOp = "onResize"
  /\ status = "running"
  /\ calls = <<Call("DlssRR::deinit", TRUE, TRUE), Call("DlssRR::init", FALSE, FALSE)>>
  /\ dlss.handle

\* the first resize of the applet that has no feature yet: deinit releases nothing
C30_WitnessNoFeature ==
  /\ lastOp = "onResize"
  /\ calls = <<Call("DlssRR::deinit", FALSE, FALSE), Call("DlssRR::init", FALSE, FALSE)>>
  /\ dlss.handle

====
